---- MODULE Spec2Model ----
(***************************************************************************)
(* Line (crates/gpui3/src/text_system/line.rs): a shaped layout bound to a *)
(* run-length-encoded sequence of decoration runs, its index/coordinate    *)
(* queries, and the two paint algorithms (paint, paint_wrapped) as step    *)
(* machines that log every call they make on the rendering context.        *)
(*                                                                         *)
(* Pixels are modelled as integers.  Option<T> is a sequence of at most    *)
(* one element.  Cursors run_ix / glyph_ix are 0-based as in the source.   *)
(***************************************************************************)
EXTENDS Integers, Sequences, FiniteSets, TLC

\* ------------------------------------------------------------------ bounds
MaxGlyphs == 3

\* --------------------------------------------------------------- Option<T>
None == <<>>
Some(v) == <<v>>
IsSome(o) == o # <<>>
Unwrap(o) == o[1]

\* ------------------------------------------------------------ input values
Colors == {"red", "blue"}
black == "black"

\* x offsets a glyph may have, and widths a layout may have
Positions == {0, 1, 2}
\* font ids; the renderer's bounding box of font f is f wide
Fonts == {1, 2}
BoundingBoxWidth(font_id) == font_id

VARIABLES
    layout,            \* Line.layout: [runs, width, len, ascent, descent]
    decoration_runs,   \* Line.decoration_runs
    pc,                \* position in the running operation
    args,              \* arguments of the running paint call
    run_ix, glyph_ix,  \* cursors of the two nested glyph loops
    max_glyph_width,   \* paint: bounding box width of the current glyph run
    style_ix,          \* decoration runs consumed from style_runs / color_runs
    run_end,           \* run_end / style_run_end
    color,             \* color / _color
    current_underline, \* Option<(Point, UnderlineStyle)>
    glyph_origin,      \* paint_wrapped: running draw origin
    prev_position,     \* paint_wrapped
    boundary_ix,       \* paint_wrapped: boundaries consumed from the iterator
    glyph_bounds,      \* paint_wrapped: the origin of each _glyph_bounds computed
    calls,             \* the calls issued on the rendering context, in order
    result,            \* "none" while running, then "ok" or "err"
    answer             \* the last query and what it returned

vars == <<layout, decoration_runs, pc, args, run_ix, glyph_ix, max_glyph_width,
          style_ix, run_end, color, current_underline, glyph_origin,
          prev_position, boundary_ix, glyph_bounds, calls, result, answer>>

line == <<layout, decoration_runs>>
paint_locals == <<max_glyph_width>>
wrapped_locals == <<glyph_origin, prev_position, boundary_ix, glyph_bounds>>
style_locals == <<style_ix, run_end, color, current_underline>>

\* ------------------------------------------------------------- the layout
Glyph(i, x, e, id) == [index |-> i, x |-> x, is_emoji |-> e, id |-> id]

\* all glyphs of the layout in run/glyph order
RECURSIVE Flatten(_)
Flatten(runs) ==
    IF runs = <<>> THEN <<>> ELSE Head(runs).glyphs \o Flatten(Tail(runs))

GlyphAt(l, r, g) == l.runs[r + 1].glyphs[g + 1]

\* ----------------------------------------------------------------- queries
\* line.rs:42-51
RECURSIVE FirstAtOrAfter(_, _)
FirstAtOrAfter(glyphs, index) ==
    IF glyphs = <<>> THEN None
    ELSE IF Head(glyphs).index >= index THEN Some(Head(glyphs))
    ELSE FirstAtOrAfter(Tail(glyphs), index)

\* a variant that answers 0 past the last glyph
x_for_index_zero_past_end(l, index) ==
    LET hit == FirstAtOrAfter(Flatten(l.runs), index)
    IN  IF IsSome(hit) THEN Unwrap(hit).x ELSE 0

x_for_index(l, index) ==
    LET hit == FirstAtOrAfter(Flatten(l.runs), index)
    IN  IF IsSome(hit) THEN Unwrap(hit).x ELSE l.width

\* line.rs:53-63
font_for_index(l, index) ==
    LET RECURSIVE Scan(_)
        Scan(runs) ==
            IF runs = <<>> THEN None
            ELSE IF IsSome(FirstAtOrAfter(Head(runs).glyphs, index))
                 THEN Some(Head(runs).font_id)
                 ELSE Scan(Tail(runs))
    IN  Scan(l.runs)

\* line.rs:77-83: the reverse scan over runs and glyphs
\* a variant that scans forward
RECURSIVE FirstAtOrBefore(_, _)
FirstAtOrBefore(glyphs, x) ==
    IF glyphs = <<>> THEN None
    ELSE IF Head(glyphs).x <= x THEN Some(Head(glyphs))
         ELSE FirstAtOrBefore(Tail(glyphs), x)

RECURSIVE LastAtOrBefore(_, _)
LastAtOrBefore(glyphs, x) ==
    IF glyphs = <<>> THEN None
    ELSE LET last == glyphs[Len(glyphs)]
         IN  IF last.x <= x THEN Some(last)
             ELSE LastAtOrBefore(SubSeq(glyphs, 1, Len(glyphs) - 1), x)

\* a variant that answers none where the source answers Some(0)
index_for_x_none_before_first(l, x) ==
    IF x >= l.width THEN None
    ELSE LET hit == LastAtOrBefore(Flatten(l.runs), x)
         IN  IF IsSome(hit) THEN Some(Unwrap(hit).index) ELSE None

\* a variant that compares with < where the source has <=
index_for_x_strict(l, x) ==
    IF x >= l.width THEN None
    ELSE LET hit == LastAtOrBefore(Flatten(l.runs), x - 1)
         IN  IF IsSome(hit) THEN Some(Unwrap(hit).index) ELSE Some(0)

\* line.rs:73-86
index_for_x(l, x) ==
    IF x >= l.width THEN None
    ELSE LET hit == LastAtOrBefore(Flatten(l.runs), x)
         IN  IF IsSome(hit) THEN Some(Unwrap(hit).index) ELSE Some(0)

\* ------------------------------------------------- the rendering context
BoundingBoxCall(font_id) == [op |-> "bounding_box", font_id |-> font_id]
GlyphCall(origin, font_id, id, c) ==
    [op |-> "paint_glyph", origin |-> origin, font_id |-> font_id, id |-> id,
     color |-> c]
EmojiCall(origin, font_id, id) ==
    [op |-> "paint_emoji", origin |-> origin, font_id |-> font_id, id |-> id]
UnderlineCall(origin, width, style) ==
    [op |-> "paint_underline", origin |-> origin, width |-> width,
     style |-> style]

\* What the rendering context answered: the call made, and whether it
\* returned Ok.
Answered(call, ok) == [call |-> call, ok |-> ok]
Succeeded(cs) == [i \in 1..Len(cs) |-> Answered(cs[i], TRUE)]

\* a variant that drops the error of a failed call and goes on
IssueIgnoringErrors(cs, next_pc) ==
    /\ \E oks \in [1..Len(cs) -> BOOLEAN] :
          calls' = calls \o [i \in 1..Len(cs) |-> Answered(cs[i], oks[i])]
    /\ pc' = next_pc
    /\ result' = IF next_pc = "done" THEN "ok" ELSE result

\* The calls cs are made in order.  Each returns Result: either all succeed
\* and the operation goes on at next_pc, or the k-th fails and `?` returns
\* the error at once, the calls after it never made.
Issue(cs, next_pc) ==
    \/ /\ calls' = calls \o Succeeded(cs)
       /\ pc' = next_pc
       /\ result' = IF next_pc = "done" THEN "ok" ELSE result
    \/ \E k \in 1..Len(cs) :
          /\ calls' = calls \o Succeeded(SubSeq(cs, 1, k - 1))
                            \o <<Answered(cs[k], FALSE)>>
          /\ pc' = "done"
          /\ result' = "err"

\* --------------------------------------------------- decoration bookkeeping
\* line.rs:96-97, 193-194
BaselineOffsetY(l, line_height) ==
    ((line_height - l.ascent - l.descent) \div 2) + l.ascent

\* descent * 0.618 (line.rs:129, 240)
UnderlineDrop(l) == (l.descent * 618) \div 1000

\* a variant that looks only at whether the new run has an underline at all
UnderlineDiffersPresence(style_run, underline_style) ==
    ~IsSome(style_run.underline)

\* line.rs:121, 231: style_run.underline.as_ref() != Some(underline_style)
UnderlineDiffers(style_run, underline_style) ==
    style_run.underline # Some(underline_style)

\* a variant that always takes the fill color
ResolvedUnderlineFillColor(style_run) ==
    LET run_underline == Unwrap(style_run.underline)
    IN  [color |-> Some(style_run.color),
         thickness |-> run_underline.thickness,
         wavy |-> run_underline.wavy]

\* line.rs:131-135, 242-246
ResolvedUnderline(style_run) ==
    LET run_underline == Unwrap(style_run.underline)
    IN  [color |-> Some(IF IsSome(run_underline.color)
                        THEN Unwrap(run_underline.color)
                        ELSE style_run.color),
         thickness |-> run_underline.thickness,
         wavy |-> run_underline.wavy]

\* a variant in which a glyph culled at the left edge leaves the cursor alone
PaintAdvanceUnlessCulled(l, runs, st, glyph, at) ==
    IF glyph.index >= st.run_end
       /\ ~(at.x + max_glyph_width < args.visible_bounds.left)
    THEN IF st.style_ix < Len(runs)
         THEN LET style_run == runs[st.style_ix + 1]
                  finish == /\ IsSome(st.current_underline)
                            /\ UnderlineDiffers(style_run,
                                   Unwrap(st.current_underline).style)
                  kept == IF finish THEN None ELSE st.current_underline
              IN  [style_ix |-> st.style_ix + 1,
                   run_end |-> st.run_end + style_run.len,
                   color |-> style_run.color,
                   current_underline |->
                       IF IsSome(style_run.underline) /\ ~IsSome(kept)
                       THEN Some([origin |-> at,
                                  style |-> ResolvedUnderline(style_run)])
                       ELSE kept,
                   finished_underline |->
                       IF finish THEN st.current_underline ELSE None]
         ELSE [style_ix |-> st.style_ix,
               run_end |-> l.len,
               color |-> st.color,
               current_underline |-> None,
               finished_underline |-> st.current_underline]
    ELSE [style_ix |-> st.style_ix, run_end |-> st.run_end, color |-> st.color,
          current_underline |-> st.current_underline,
          finished_underline |-> None]

\* line.rs:117-145.  st holds style_ix, run_end, color, current_underline;
\* at is the point a new underline would start from.
PaintAdvance(l, runs, st, glyph, at) ==
    IF glyph.index >= st.run_end
    THEN IF st.style_ix < Len(runs)
         THEN LET style_run == runs[st.style_ix + 1]
                  finish == /\ IsSome(st.current_underline)
                            /\ UnderlineDiffers(style_run,
                                   Unwrap(st.current_underline).style)
                  kept == IF finish THEN None ELSE st.current_underline
              IN  [style_ix |-> st.style_ix + 1,
                   run_end |-> st.run_end + style_run.len,
                   color |-> style_run.color,
                   current_underline |->
                       IF IsSome(style_run.underline) /\ ~IsSome(kept)
                       THEN Some([origin |-> at,
                                  style |-> ResolvedUnderline(style_run)])
                       ELSE kept,
                   finished_underline |->
                       IF finish THEN st.current_underline ELSE None]
         ELSE [style_ix |-> st.style_ix,
               run_end |-> l.len,
               color |-> st.color,
               current_underline |-> None,
               finished_underline |-> st.current_underline]
    ELSE [style_ix |-> st.style_ix, run_end |-> st.run_end, color |-> st.color,
          current_underline |-> st.current_underline,
          finished_underline |-> None]

\* ------------------------------------------------------------ Line::paint
\* where the loops of line.rs:105-171 go on after glyph g of run r
AfterRun(l, r) == IF r < Len(l.runs) THEN "paint_run" ELSE "paint_flush"

\* line.rs:88-103
Paint(origin, visible_bounds, line_height) ==
    /\ pc = "idle"
    /\ args' = [op |-> "paint", origin |-> origin,
                visible_bounds |-> visible_bounds,
                line_height |-> line_height, boundaries |-> <<>>]
    /\ run_ix' = 0
    /\ glyph_ix' = 0
    /\ style_ix' = 0
    /\ run_end' = 0
    /\ color' = black
    /\ current_underline' = None
    /\ pc' = AfterRun(layout, 0)
    /\ UNCHANGED <<line, paint_locals, wrapped_locals, calls, result, answer>>

\* line.rs:105-109: the head of the loop over glyph runs
PaintRun ==
    /\ pc = "paint_run"
    /\ LET run == layout.runs[run_ix + 1]
       IN  /\ max_glyph_width' = BoundingBoxWidth(run.font_id)
           /\ glyph_ix' = 0
           /\ run_ix' = IF run.glyphs = <<>> THEN run_ix + 1 ELSE run_ix
           /\ Issue(<<BoundingBoxCall(run.font_id)>>,
                    IF run.glyphs = <<>> THEN AfterRun(layout, run_ix + 1)
                    ELSE "paint_glyph")
    /\ UNCHANGED <<line, args, style_locals, wrapped_locals, answer>>

\* line.rs:113: the glyph lies right of the visible window
RightOfWindow(x, visible_bounds) == x > visible_bounds.right

\* a variant that culls by the glyph's origin, its width forgotten
LeftOfWindowByOrigin(x, width, visible_bounds) == x < visible_bounds.left

\* line.rs:147: the glyph's right edge lies left of the visible window
LeftOfWindow(x, width, visible_bounds) == x + width < visible_bounds.left

\* line.rs:151-169: the calls of one glyph that is drawn
GlyphCalls(run, glyph, origin, finished_underline, c) ==
    (IF IsSome(finished_underline)
     THEN <<UnderlineCall(Unwrap(finished_underline).origin,
                          origin.x - Unwrap(finished_underline).origin.x,
                          Unwrap(finished_underline).style)>>
     ELSE <<>>)
    \o <<IF glyph.is_emoji
         THEN EmojiCall(origin, run.font_id, glyph.id)
         ELSE GlyphCall(origin, run.font_id, glyph.id, c)>>

\* line.rs:111-170: one iteration of the loop over the glyphs of a run
PaintGlyph ==
    /\ pc = "paint_glyph"
    /\ LET run == layout.runs[run_ix + 1]
           glyph == run.glyphs[glyph_ix + 1]
           baseline_y == BaselineOffsetY(layout, args.line_height)
           origin == [x |-> args.origin.x + glyph.x,
                      y |-> args.origin.y + baseline_y]
           last == glyph_ix + 1 >= Len(run.glyphs)
           next_pc == IF last THEN AfterRun(layout, run_ix + 1)
                      ELSE "paint_glyph"
           st == PaintAdvance(layout, decoration_runs,
                     [style_ix |-> style_ix, run_end |-> run_end,
                      color |-> color,
                      current_underline |-> current_underline],
                     glyph,
                     [x |-> origin.x,
                      y |-> args.origin.y + baseline_y + UnderlineDrop(layout)])
       IN  IF RightOfWindow(origin.x, args.visible_bounds)
           THEN \* break: on to the next glyph run
                /\ run_ix' = run_ix + 1
                /\ glyph_ix' = 0
                /\ pc' = AfterRun(layout, run_ix + 1)
                /\ UNCHANGED <<style_locals, calls, result>>
           ELSE /\ run_ix' = IF last THEN run_ix + 1 ELSE run_ix
                /\ glyph_ix' = IF last THEN 0 ELSE glyph_ix + 1
                /\ style_ix' = st.style_ix
                /\ run_end' = st.run_end
                /\ color' = st.color
                /\ current_underline' = st.current_underline
                /\ IF LeftOfWindow(origin.x, max_glyph_width,
                                   args.visible_bounds)
                   THEN \* continue
                        /\ pc' = next_pc
                        /\ UNCHANGED <<calls, result>>
                   ELSE Issue(GlyphCalls(run, glyph, origin,
                                         st.finished_underline, st.color),
                              next_pc)
    /\ UNCHANGED <<line, args, paint_locals, wrapped_locals, answer>>

\* a variant that forgets the destination's origin
LineEndXNoOrigin(origin, l) == l.width

\* line.rs:174
LineEndX(origin, l) == origin.x + l.width

\* line.rs:173-182
PaintFlush ==
    /\ pc = "paint_flush"
    /\ IF IsSome(current_underline)
       THEN LET underline == Unwrap(current_underline)
                line_end_x == LineEndX(args.origin, layout)
            IN  Issue(<<UnderlineCall(underline.origin,
                                      line_end_x - underline.origin.x,
                                      underline.style)>>, "done")
       ELSE /\ pc' = "done"
            /\ result' = "ok"
            /\ UNCHANGED calls
    /\ current_underline' = None
    /\ UNCHANGED <<line, args, run_ix, glyph_ix, paint_locals, style_ix,
                   run_end, color, wrapped_locals, answer>>

\* ---------------------------------------------------- Line::paint_wrapped
\* line.rs:225-254: as PaintAdvance, with the color reset when the
\* decoration runs are exhausted
WrappedAdvance(l, runs, st, glyph, at) ==
    IF glyph.index >= st.run_end
    THEN IF st.style_ix < Len(runs)
         THEN LET style_run == runs[st.style_ix + 1]
                  finish == /\ IsSome(st.current_underline)
                            /\ UnderlineDiffers(style_run,
                                   Unwrap(st.current_underline).style)
                  kept == IF finish THEN None ELSE st.current_underline
              IN  [style_ix |-> st.style_ix + 1,
                   run_end |-> st.run_end + style_run.len,
                   color |-> style_run.color,
                   current_underline |->
                       IF IsSome(style_run.underline) /\ ~IsSome(kept)
                       THEN Some([origin |-> at,
                                  style |-> ResolvedUnderline(style_run)])
                       ELSE kept,
                   finished_underline |->
                       IF finish THEN st.current_underline ELSE None]
         ELSE [style_ix |-> st.style_ix,
               run_end |-> l.len,
               color |-> black,
               current_underline |-> None,
               finished_underline |-> st.current_underline]
    ELSE [style_ix |-> st.style_ix, run_end |-> st.run_end, color |-> st.color,
          current_underline |-> st.current_underline,
          finished_underline |-> None]

\* line.rs:204-205: the first glyph at or after glyph g of run r, in loop order
RECURSIVE WrappedNext(_, _, _)
WrappedNext(l, r, g) ==
    IF r >= Len(l.runs)
    THEN [pc |-> "wrapped_flush", run_ix |-> r, glyph_ix |-> 0]
    ELSE IF g < Len(l.runs[r + 1].glyphs)
         THEN [pc |-> "wrapped_glyph", run_ix |-> r, glyph_ix |-> g]
         ELSE WrappedNext(l, r + 1, 0)

\* line.rs:185-203
PaintWrapped(origin, line_height, boundaries) ==
    /\ pc = "idle"
    /\ args' = [op |-> "paint_wrapped", origin |-> origin,
                visible_bounds |-> [left |-> 0, right |-> 0],
                line_height |-> line_height, boundaries |-> boundaries]
    /\ boundary_ix' = 0
    /\ style_ix' = 0
    /\ run_end' = 0
    /\ color' = black
    /\ current_underline' = None
    /\ glyph_origin' = origin
    /\ prev_position' = 0
    /\ glyph_bounds' = <<>>
    /\ LET first == WrappedNext(layout, 0, 0)
       IN  /\ pc' = first.pc
           /\ run_ix' = first.run_ix
           /\ glyph_ix' = first.glyph_ix
    /\ UNCHANGED <<line, paint_locals, calls, result, answer>>

\* a variant that compares the run index alone
AtBoundaryRunOnly(boundaries, consumed, r, g) ==
    /\ consumed < Len(boundaries)
    /\ boundaries[consumed + 1].run_ix = r

\* a variant that compares the glyph index alone
AtBoundaryGlyphOnly(boundaries, consumed, r, g) ==
    /\ consumed < Len(boundaries)
    /\ boundaries[consumed + 1].glyph_ix = g

\* line.rs:208-211: the glyph is the one the next pending boundary names
AtBoundary(boundaries, consumed, r, g) ==
    /\ consumed < Len(boundaries)
    /\ boundaries[consumed + 1].run_ix = r
    /\ boundaries[consumed + 1].glyph_ix = g

\* a variant that takes x itself for the length
FlushAtLengthX(underline, x) ==
    IF IsSome(underline)
    THEN <<UnderlineCall(Unwrap(underline).origin, x, Unwrap(underline).style)>>
    ELSE <<>>

\* line.rs:213-219, 256-262: an underline flushed at x
FlushAt(underline, x) ==
    IF IsSome(underline)
    THEN <<UnderlineCall(Unwrap(underline).origin,
                         x - Unwrap(underline).origin.x,
                         Unwrap(underline).style)>>
    ELSE <<>>

\* line.rs:205-289: one iteration of the loop over the glyphs of a run
WrappedGlyph ==
    /\ pc = "wrapped_glyph"
    /\ LET run == layout.runs[run_ix + 1]
           glyph == run.glyphs[glyph_ix + 1]
           moved == [x |-> glyph_origin.x + (glyph.x - prev_position),
                     y |-> glyph_origin.y]
           wrap == AtBoundary(args.boundaries, boundary_ix, run_ix, glyph_ix)
           origin == IF wrap
                     THEN [x |-> args.origin.x,
                           y |-> moved.y + args.line_height]
                     ELSE moved
           baseline_y == BaselineOffsetY(layout, args.line_height)
           st == WrappedAdvance(layout, decoration_runs,
                     [style_ix |-> style_ix, run_end |-> run_end,
                      color |-> color,
                      current_underline |->
                          IF wrap THEN None ELSE current_underline],
                     glyph,
                     [x |-> origin.x,
                      y |-> origin.y + baseline_y + UnderlineDrop(layout)])
           next == WrappedNext(layout, run_ix, glyph_ix + 1)
       IN  /\ boundary_ix' = IF wrap THEN boundary_ix + 1 ELSE boundary_ix
           /\ glyph_origin' = origin
           /\ prev_position' = glyph.x
           /\ style_ix' = st.style_ix
           /\ run_end' = st.run_end
           /\ color' = st.color
           /\ current_underline' = st.current_underline
           /\ run_ix' = next.run_ix
           /\ glyph_ix' = next.glyph_ix
           /\ Issue((IF wrap THEN FlushAt(current_underline, moved.x)
                     ELSE <<>>)
                    \o FlushAt(st.finished_underline, origin.x)
                    \o <<BoundingBoxCall(run.font_id)>>,
                    next.pc)
           /\ glyph_bounds' = IF result' = "err" THEN glyph_bounds
                              ELSE Append(glyph_bounds,
                                          [id |-> glyph.id, origin |-> origin])
    /\ UNCHANGED <<line, args, paint_locals, answer>>

\* a variant that forgets the layout width
WrappedLineEndXNoWidth(x, l, prev) == x - prev

\* a variant that adds the whole layout width to the draw x
WrappedLineEndXFullWidth(x, l, prev) == x + l.width

\* line.rs:293
WrappedLineEndX(x, l, prev) == x + l.width - prev

\* line.rs:292-301
WrappedFlush ==
    /\ pc = "wrapped_flush"
    /\ IF IsSome(current_underline)
       THEN LET line_end_x == WrappedLineEndX(glyph_origin.x, layout,
                                              prev_position)
            IN  Issue(FlushAt(current_underline, line_end_x), "done")
       ELSE /\ pc' = "done"
            /\ result' = "ok"
            /\ UNCHANGED calls
    /\ current_underline' = None
    /\ UNCHANGED <<line, args, run_ix, glyph_ix, paint_locals, style_ix,
                   run_end, color, wrapped_locals, answer>>

\* ------------------------------------------------------ the query calls
XForIndex(index) ==
    /\ pc = "idle"
    /\ answer' = [op |-> "x_for_index", arg |-> index,
                  val |-> Some(x_for_index(layout, index))]
    /\ UNCHANGED <<line, pc, args, run_ix, glyph_ix, paint_locals,
                   style_locals, wrapped_locals, calls, result>>

IndexForX(x) ==
    /\ pc = "idle"
    /\ answer' = [op |-> "index_for_x", arg |-> x,
                  val |-> index_for_x(layout, x)]
    /\ UNCHANGED <<line, pc, args, run_ix, glyph_ix, paint_locals,
                   style_locals, wrapped_locals, calls, result>>

FontForIndex(index) ==
    /\ pc = "idle"
    /\ answer' = [op |-> "font_for_index", arg |-> index,
                  val |-> font_for_index(layout, index)]
    /\ UNCHANGED <<line, pc, args, run_ix, glyph_ix, paint_locals,
                   style_locals, wrapped_locals, calls, result>>

\* ------------------------------------------------------------- the inputs
\* non-decreasing sequences of n byte indices of a text of len bytes
SortedIndices(n, len) ==
    {s \in [1..n -> 0..(len - 1)] : \A i \in 1..(n - 1) : s[i] <= s[i + 1]}

\* glyph runs over the glyphs: one run of a font of Singles, or two runs
\* of the two fonts of a pair of Pairs
RunSplits(glyphs, Singles, Pairs) ==
    IF glyphs = <<>> THEN {<<>>}
    ELSE {<<[font_id |-> f, glyphs |-> glyphs]>> : f \in Singles}
         \cup {<<[font_id |-> f[1], glyphs |-> SubSeq(glyphs, 1, k)],
                 [font_id |-> f[2],
                  glyphs |-> SubSeq(glyphs, k + 1, Len(glyphs))]>> :
                  k \in 1..(Len(glyphs) - 1), f \in Pairs}

GlyphSeqs(n, len, Xs, Es) ==
    {[i \in 1..n |-> Glyph(ix[i], xs[i], es[i], i)] :
        ix \in SortedIndices(n, len), xs \in Xs, es \in Es}

Layouts(len, XSeqs, ESeqs, Singles, Pairs, Ws) ==
    {[runs |-> runs, width |-> w, len |-> len,
      ascent |-> 3000, descent |-> 1000] :
        runs \in UNION {UNION {RunSplits(g, Singles, Pairs) :
                                 g \in GlyphSeqs(n, len, XSeqs[n], ESeqs[n])} :
                          n \in 0..(IF len = 0 THEN 0 ELSE MaxGlyphs)},
        w \in Ws}

TextLens == {0, 1, 2, 3}
GlyphCounts == 0..MaxGlyphs
FullWidth == MaxGlyphs + 2

\* x offsets: evenly spaced from the line start, or starting one in with a
\* gap after the first glyph
Spaced == [n \in GlyphCounts |->
              {[i \in 1..n |-> i - 1],
               [i \in 1..n |-> IF i = 1 THEN 1 ELSE i + 1]}]
NoEmoji == [n \in GlyphCounts |-> {[i \in 1..n |-> FALSE]}]
\* at most one glyph is an emoji
OneEmoji == [n \in GlyphCounts |-> {[i \in 1..n |-> i = k] : k \in 0..n}]

Underline(c, thickness, wavy) ==
    [color |-> c, thickness |-> thickness, wavy |-> wavy]

Styles ==
    {[color |-> "red", underline |-> None],
     [color |-> "red", underline |-> Some(Underline(None, 1, FALSE))],
     [color |-> "blue", underline |-> Some(Underline(None, 2, TRUE))],
     [color |-> "blue", underline |-> Some(Underline(Some("red"), 1, FALSE))]}

\* decoration runs of at least one byte each, of at most len bytes together
RECURSIVE DecorationSeqs(_)
DecorationSeqs(len) ==
    {<<>>} \cup
    UNION {{<<[len |-> k, color |-> s.color, underline |-> s.underline]>> \o rest :
               s \in Styles, rest \in DecorationSeqs(len - k)} : k \in 1..len}

Origins == {[x |-> 1, y |-> 2000]}
LineHeights == {6000}

\* the visible window that is the line's own extent
WholeLine(l, origin) ==
    [left |-> origin.x, right |-> origin.x + l.width]

\* glyph coordinates in loop order, and the ascending boundary sequences
Coords(l) ==
    LET RECURSIVE Go(_, _)
        Go(r, g) ==
            LET n == WrappedNext(l, r, g)
            IN  IF n.pc = "wrapped_flush" THEN <<>>
                ELSE <<[run_ix |-> n.run_ix, glyph_ix |-> n.glyph_ix]>>
                     \o Go(n.run_ix, n.glyph_ix + 1)
    IN  Go(0, 0)

RECURSIVE Ascending(_)
Ascending(coords) ==
    IF coords = <<>> THEN {<<>>}
    ELSE LET rest == Ascending(Tail(coords))
         IN  rest \cup {<<Head(coords)>> \o b : b \in rest}

\* the boundary sequences of a layout: each boundary names the glyph that
\* begins a new row, so the line's first glyph, which begins row 0, is none
Boundaries(l) ==
    IF Coords(l) = <<>> THEN {<<>>} ELSE Ascending(Tail(Coords(l)))

Idle ==
    /\ pc = "idle"
    /\ args = [op |-> "none", origin |-> [x |-> 0, y |-> 0],
               visible_bounds |-> [left |-> 0, right |-> 0],
               line_height |-> 0, boundaries |-> <<>>]
    /\ run_ix = 0
    /\ glyph_ix = 0
    /\ max_glyph_width = 0
    /\ style_ix = 0
    /\ run_end = 0
    /\ color = black
    /\ current_underline = None
    /\ glyph_origin = [x |-> 0, y |-> 0]
    /\ prev_position = 0
    /\ boundary_ix = 0
    /\ glyph_bounds = <<>>
    /\ calls = <<>>
    /\ result = "none"
    /\ answer = [op |-> "none", arg |-> 0, val |-> None]

\* Line::new (line.rs:23-28)
Init ==
    /\ layout \in UNION {Layouts(len, Spaced, NoEmoji, {1}, {<<1, 2>>},
                                   {FullWidth}) :
                           len \in TextLens}
    /\ decoration_runs \in DecorationSeqs(layout.len)
    /\ Idle

Next ==
    \/ /\ pc = "idle"
       /\ \E o \in Origins, h \in LineHeights :
             \E v \in {WholeLine(layout, o),
                        [left |-> o.x + 2, right |-> o.x + 2]} :
                Paint(o, v, h)
    \/ PaintRun
    \/ PaintGlyph
    \/ PaintFlush
    \/ /\ pc = "idle"
       /\ \E o \in Origins, h \in LineHeights, b \in Boundaries(layout) :
             PaintWrapped(o, h, b)
    \/ WrappedGlyph
    \/ WrappedFlush

Spec == Init /\ [][Next]_vars

\* ------------------------------------- paint, then paint_wrapped unwrapped
\* line.rs:182, 301: Ok(()) is returned and the Line can be painted again
Return ==
    /\ pc = "done" /\ result = "ok"
    /\ pc' = "idle"
    /\ result' = "none"
    /\ UNCHANGED <<line, args, run_ix, glyph_ix, paint_locals, style_locals,
                   wrapped_locals, calls, answer>>

\* the Line is painted with the whole line visible and then, at the same
\* origin, painted wrapped with no boundary
NextTwice ==
    \/ /\ pc = "idle" /\ args.op = "none"
       /\ \E o \in Origins, h \in LineHeights :
             Paint(o, WholeLine(layout, o), h)
    \/ PaintRun
    \/ PaintGlyph
    \/ PaintFlush
    \/ args.op = "paint" /\ Return
    \/ /\ pc = "idle" /\ args.op = "paint"
       /\ PaintWrapped(args.origin, args.line_height, <<>>)
    \/ WrappedGlyph
    \/ WrappedFlush

SpecTwice == Init /\ [][NextTwice]_vars

\* ---------------------------------------------- paint under partial windows
\* x offsets two apart, so that a window can end between two glyphs
WindowPositions == {0, 2, 4}
WideX == [n \in GlyphCounts |-> [1..n -> WindowPositions]]

\* visible windows, as [left, right] in destination coordinates: the whole
\* line and windows that cut it on either side
Windows(l, origin) ==
    {WholeLine(l, origin),
     [left |-> origin.x, right |-> origin.x + 1],
     [left |-> origin.x + 2, right |-> origin.x + 2],
     [left |-> origin.x + 3, right |-> origin.x + 3],
     [left |-> origin.x + 4, right |-> origin.x + 5]}

InitWindow ==
    /\ layout \in Layouts(1, WideX, OneEmoji, Fonts, {<<1, 2>>, <<2, 1>>},
                          {FullWidth})
    /\ decoration_runs \in DecorationSeqs(layout.len)
    /\ Idle

NextWindow ==
    \/ /\ pc = "idle"
       /\ \E o \in Origins, h \in LineHeights :
             \E v \in Windows(layout, o) : Paint(o, v, h)
    \/ PaintRun
    \/ PaintGlyph
    \/ PaintFlush

SpecWindow == InitWindow /\ [][NextWindow]_vars

\* --------------------------------------------- paint twice, window by window
\* x offsets two apart, left to right and right to left
WideSpaced ==
    [n \in GlyphCounts |-> {[i \in 1..n |-> 2 * (i - 1)],
                            [i \in 1..n |-> 2 * (n - i)]}]

\* decoration runs that only color, of at most len bytes together
RECURSIVE ColorRuns(_)
ColorRuns(len) ==
    {<<>>} \cup
    UNION {{<<[len |-> k, color |-> c, underline |-> None]>> \o rest :
               c \in Colors, rest \in ColorRuns(len - k)} : k \in 1..len}

InitRepaint ==
    /\ layout \in UNION {Layouts(len, WideSpaced, NoEmoji, {1}, {<<2, 1>>},
                                 {FullWidth + 1}) : len \in {2, 3}}
    /\ decoration_runs \in ColorRuns(layout.len)
    /\ Idle

\* the log holds the calls of at most one paint
PaintedOnce ==
    Cardinality({j \in 1..Len(calls) : calls[j].call.op = "bounding_box"})
        <= Len(layout.runs)

NextRepaint ==
    \/ /\ pc = "idle"
       /\ \E o \in Origins, h \in LineHeights :
             \E v \in Windows(layout, o) : Paint(o, v, h)
    \/ PaintRun
    \/ PaintGlyph
    \/ PaintFlush
    \/ PaintedOnce /\ Return

SpecRepaint == InitRepaint /\ [][NextRepaint]_vars

\* ------------------------------------------- underlines on any positions
AnyX == [n \in GlyphCounts |-> [1..n -> Positions]]

\* two-byte lines with glyphs at any x offsets, narrower or wider than them
InitLengths ==
    /\ layout \in Layouts(2, AnyX, NoEmoji, {1}, {}, {1, FullWidth})
    /\ decoration_runs \in DecorationSeqs(layout.len)
    /\ Idle

SpecLengths == InitLengths /\ [][Next]_vars

\* ------------------------------------------------------------ the queries
QueryWidths == {0, 2, 3}
QueryXs == {-1, 0, 1, 2, 3}

\* the layout width is the extent of the shaped text: no glyph starts past it
InitQuery ==
    /\ layout \in {l \in UNION {Layouts(len, AnyX, NoEmoji, {1}, {<<1, 2>>},
                                        QueryWidths) : len \in TextLens} :
                       \A glyph \in {Flatten(l.runs)[i] :
                                        i \in 1..Len(Flatten(l.runs))} :
                          glyph.x <= l.width}
    /\ decoration_runs = <<>>
    /\ Idle

NextQuery ==
    \/ \E index \in 0..(layout.len + 1) : XForIndex(index)
    \/ \E x \in QueryXs : IndexForX(x)
    \/ \E index \in 0..(layout.len + 1) : FontForIndex(index)

SpecQuery == InitQuery /\ [][NextQuery]_vars

\* ------------------------------------------------------------ observations
Glyphs == Flatten(layout.runs)

PaintDone == args.op = "paint" /\ pc = "done" /\ result = "ok"
WrappedDone == args.op = "paint_wrapped" /\ pc = "done" /\ result = "ok"

\* the visible window holds the line's extent and every glyph's origin
WholeLineVisible ==
    /\ args.visible_bounds.left <= args.origin.x
    /\ args.visible_bounds.right >= args.origin.x + layout.width
    /\ \A i \in 1..Len(Glyphs) :
          /\ args.visible_bounds.left <= args.origin.x + Glyphs[i].x
          /\ args.origin.x + Glyphs[i].x <= args.visible_bounds.right

RECURSIVE SumLens(_)
SumLens(runs) == IF runs = <<>> THEN 0 ELSE Head(runs).len + SumLens(Tail(runs))

\* the byte range [DecoStart, DecoEnd) of the k-th decoration run
DecoStart(runs, k) == SumLens(SubSeq(runs, 1, k - 1))
DecoEnd(runs, k) == SumLens(SubSeq(runs, 1, k))
Covers(runs, k, index) == DecoStart(runs, k) <= index /\ index < DecoEnd(runs, k)

\* every decoration run holds the byte index of at least one glyph
EveryRunHoldsGlyph ==
    \A k \in 1..Len(decoration_runs) :
        \E i \in 1..Len(Glyphs) : Covers(decoration_runs, k, Glyphs[i].index)

\* the underline style of a decoration run after the color fallback
Resolved(style_run) ==
    IF IsSome(style_run.underline)
    THEN Some([color |-> IF IsSome(Unwrap(style_run.underline).color)
                         THEN Unwrap(style_run.underline).color
                         ELSE Some(style_run.color),
               thickness |-> Unwrap(style_run.underline).thickness,
               wavy |-> Unwrap(style_run.underline).wavy])
    ELSE None

\* the x at which the glyph of a byte is drawn by paint: that of the first
\* glyph at or after the byte, the line's right edge when there is none
RECURSIVE FirstIndexAtOrAfter(_, _, _)
FirstIndexAtOrAfter(glyphs, i, index) ==
    IF i > Len(glyphs) THEN 0
    ELSE IF glyphs[i].index >= index THEN i
    ELSE FirstIndexAtOrAfter(glyphs, i + 1, index)

XAt(index) ==
    LET i == FirstIndexAtOrAfter(Glyphs, 1, index)
    IN  args.origin.x + (IF i = 0 THEN layout.width ELSE Glyphs[i].x)

UnderlineY ==
    args.origin.y + BaselineOffsetY(layout, args.line_height)
                  + UnderlineDrop(layout)

IsUnderline(c) == c.call.op = "paint_underline"
IsDraw(c) == c.call.op \in {"paint_glyph", "paint_emoji"}
UnderlineCalls ==
    LET us == SelectSeq(calls, IsUnderline)
    IN  [j \in 1..Len(us) |-> us[j].call]

\* --------------------------------------------------------------------- C1
\* C1: in paint, with decoration runs whose lengths sum to the text length
\* and the whole line visible, every paint_glyph call carries the color of
\* the decoration run whose byte range holds the glyph's byte index (glyph
\* byte indices are non-decreasing in every layout; a glyph may cover
\* several bytes and a decoration run may be shorter than its glyph).
\* Stated for layouts whose first glyph is that of byte 0, so that every
\* byte belongs to a glyph.
C1_GlyphColorOfCoveringRun ==
    (/\ args.op = "paint"
     /\ SumLens(decoration_runs) = layout.len
     /\ (Glyphs # <<>> => Glyphs[1].index = 0)
     /\ WholeLineVisible)
    => \A j \in 1..Len(calls) :
          calls[j].call.op = "paint_glyph"
          => \E k \in 1..Len(decoration_runs) :
                /\ Covers(decoration_runs, k, Glyphs[calls[j].call.id].index)
                /\ calls[j].call.color = decoration_runs[k].color

\* --------------------------------------------------------------------- C2
\* C2: in paint with the whole line visible, two adjacent decoration runs
\* with identical resolved underline styles get exactly one paint_underline
\* call, from the x of the first run's first glyph to the x where the second
\* run ends, whether the underline colors were explicit or unset.  (Stated
\* for runs that each hold a glyph and a pair that no neighbouring run
\* extends.)
C2_AdjacentSameStyleOneCall ==
    (PaintDone /\ WholeLineVisible /\ EveryRunHoldsGlyph)
    => \A k \in 1..(Len(decoration_runs) - 1) :
          (/\ IsSome(decoration_runs[k].underline)
           /\ Resolved(decoration_runs[k]) = Resolved(decoration_runs[k + 1])
           /\ (k > 1 => Resolved(decoration_runs[k - 1])
                          # Resolved(decoration_runs[k]))
           /\ (k + 1 < Len(decoration_runs)
                  => Resolved(decoration_runs[k + 2])
                       # Resolved(decoration_runs[k])))
          => LET from == XAt(DecoStart(decoration_runs, k))
                 to == XAt(DecoEnd(decoration_runs, k + 1))
                 hits == {j \in 1..Len(UnderlineCalls) :
                            /\ from <= UnderlineCalls[j].origin.x
                            /\ UnderlineCalls[j].origin.x < to}
             IN  /\ Cardinality(hits) = 1
                 /\ \A j \in hits :
                       UnderlineCalls[j] =
                           UnderlineCall([x |-> from, y |-> UnderlineY],
                                         to - from,
                                         Unwrap(Resolved(decoration_runs[k])))

\* --------------------------------------------------------------------- C3
\* one expected call per decoration run with an underline, from the x of
\* its first glyph to the x of the first glyph after it
RECURSIVE OneCallPerRun(_, _)
OneCallPerRun(runs, k) ==
    IF k > Len(runs) THEN <<>>
    ELSE (IF IsSome(runs[k].underline)
          THEN <<UnderlineCall([x |-> XAt(DecoStart(runs, k)),
                                y |-> UnderlineY],
                               XAt(DecoEnd(runs, k)) - XAt(DecoStart(runs, k)),
                               Unwrap(Resolved(runs[k])))>>
          ELSE <<>>)
         \o OneCallPerRun(runs, k + 1)

AdjacentRunsDiffer ==
    \A k \in 1..(Len(decoration_runs) - 1) :
        Resolved(decoration_runs[k]) # Resolved(decoration_runs[k + 1])

\* C3: in paint with the whole line visible and every decoration run
\* holding a glyph, when consecutive runs have differing resolved underline
\* styles (present/absent included) the paint_underline calls are exactly
\* one per underlined run, in order, each from the x of the run's first
\* glyph to the x of the first glyph of the following run (the line's right
\* edge after the last); runs without an underline produce none.
C3_OneCallPerDifferingSpan ==
    (PaintDone /\ WholeLineVisible /\ EveryRunHoldsGlyph /\ AdjacentRunsDiffer)
    => UnderlineCalls = OneCallPerRun(decoration_runs, 1)

C3_Witness ==
    /\ PaintDone /\ WholeLineVisible /\ EveryRunHoldsGlyph /\ AdjacentRunsDiffer
    /\ Len(decoration_runs) = 3
    /\ IsSome(decoration_runs[1].underline)
    /\ IsSome(decoration_runs[2].underline)
    /\ ~IsSome(decoration_runs[3].underline)
    /\ Len(UnderlineCalls) = 2

\* --------------------------------------------------------------------- C5
SingleUnderlinedRun ==
    /\ Len(decoration_runs) = 1
    /\ decoration_runs[1].len = layout.len
    /\ IsSome(decoration_runs[1].underline)

\* C5 as claimed: with a single underlined decoration run over the whole
\* text and the whole line visible, the final flush is the only underline
\* call and it spans the full line width.  (Stated for lines with a glyph.)
C5_SingleRunSpansFullWidth ==
    (PaintDone /\ WholeLineVisible /\ SingleUnderlinedRun /\ Glyphs # <<>>)
    => /\ Len(UnderlineCalls) = 1
       /\ UnderlineCalls[1].origin.x = args.origin.x
       /\ UnderlineCalls[1].width = layout.width

\* the step that ends the glyph loop with an underline active makes exactly
\* one more call, the flush from the recorded start to origin.x + width
FinalFlushStep ==
    (pc = "paint_flush" /\ IsSome(current_underline))
    => /\ Len(calls') = Len(calls) + 1
       /\ SubSeq(calls', 1, Len(calls)) = calls
       /\ calls'[Len(calls')].call =
              UnderlineCall(Unwrap(current_underline).origin,
                            (args.origin.x + layout.width)
                                - Unwrap(current_underline).origin.x,
                            Unwrap(current_underline).style)
       /\ pc' = "done"

SingleRunOneCall ==
    (PaintDone /\ WholeLineVisible /\ SingleUnderlinedRun /\ Glyphs # <<>>)
    => UnderlineCalls =
          <<UnderlineCall([x |-> args.origin.x + Glyphs[1].x, y |-> UnderlineY],
                          layout.width - Glyphs[1].x,
                          Unwrap(Resolved(decoration_runs[1])))>>

\* C5 (amended): if an underline is active when paint's glyph loop ends,
\* exactly one final paint_underline call is made, from the span's recorded
\* start x, of length (origin.x + width) - start x.  With a single
\* underlined decoration run over the whole text, the whole line visible and
\* at least one glyph it is the only underline call, from the first glyph's
\* x to the line's right edge.
C5_FinalFlush == [][FinalFlushStep]_vars /\ []SingleRunOneCall

C5_Witness ==
    /\ PaintDone /\ WholeLineVisible /\ SingleUnderlinedRun
    /\ Len(Glyphs) >= 2
    /\ Glyphs[1].x = 1
    /\ Len(UnderlineCalls) = 1

\* --------------------------------------------------------------------- C6
\* the position in run/glyph order of the glyph a boundary names
RECURSIVE GlyphsBefore(_, _)
GlyphsBefore(runs, r) ==
    IF r = 0 \/ runs = <<>> THEN 0
    ELSE Len(Head(runs).glyphs) + GlyphsBefore(Tail(runs), r - 1)

FlatIx(b) == GlyphsBefore(layout.runs, b.run_ix) + b.glyph_ix + 1

\* the visual row of the i-th glyph, and the glyph that started that row
RowOf(i) ==
    Cardinality({k \in 1..Len(args.boundaries) : FlatIx(args.boundaries[k]) <= i})
RowStart(i) ==
    IF RowOf(i) = 0 THEN 1 ELSE FlatIx(args.boundaries[RowOf(i)])

\* C6 as claimed: paint_wrapped with N boundaries makes N + 1 rows; the glyph
\* of the k-th boundary is placed at the left edge, at y = origin.y + k *
\* line_height; glyphs before the first boundary stay at origin.y; within a
\* row each later glyph's x is the left edge plus its position minus the
\* position of the glyph that started the row.
C6_RowGeometry ==
    WrappedDone
    => /\ boundary_ix = Len(args.boundaries)
       /\ Len(glyph_bounds) = Len(Glyphs)
       /\ \A i \in 1..Len(Glyphs) :
             /\ glyph_bounds[i].id = Glyphs[i].id
             /\ glyph_bounds[i].origin.y =
                    args.origin.y + RowOf(i) * args.line_height
             /\ (RowOf(i) >= 1 /\ i = RowStart(i))
                    => glyph_bounds[i].origin.x = args.origin.x
             /\ i > RowStart(i)
                    => glyph_bounds[i].origin.x =
                          args.origin.x + Glyphs[i].x - Glyphs[RowStart(i)].x

\* C6 (amended): as claimed on the rows that a boundary starts; on the first
\* row every glyph's x is the left edge plus its layout position, the first
\* glyph's position not subtracted.
C6_RowGeometryFirstRowAbsolute ==
    WrappedDone
    => /\ boundary_ix = Len(args.boundaries)
       /\ Len(glyph_bounds) = Len(Glyphs)
       /\ \A i \in 1..Len(Glyphs) :
             /\ glyph_bounds[i].id = Glyphs[i].id
             /\ glyph_bounds[i].origin.y =
                    args.origin.y + RowOf(i) * args.line_height
             /\ glyph_bounds[i].origin.x =
                    args.origin.x + Glyphs[i].x
                        - (IF RowOf(i) = 0 THEN 0 ELSE Glyphs[RowStart(i)].x)

C6_Witness ==
    /\ WrappedDone
    /\ Len(Glyphs) = 3
    /\ Glyphs[1].x = 1
    /\ Len(args.boundaries) = 1
    /\ FlatIx(args.boundaries[1]) = 2
    /\ glyph_bounds[3].origin.x > args.origin.x

\* --------------------------------------------------------------------- C7
\* every decoration run starts at the byte index of a glyph
RunsStartAtGlyphs ==
    \A k \in 1..Len(decoration_runs) :
        \E i \in 1..Len(Glyphs) :
            Glyphs[i].index = DecoStart(decoration_runs, k)

\* C7: paint_wrapped keeps the underline contract per row; in particular,
\* when a wrap boundary falls strictly inside an underlined decoration run,
\* the glyphs of that run on the new row are covered by an underline call on
\* the new row.  (Stated for decoration runs that sum to the text length and
\* each start at a glyph.)
C7_UnderlineContinuesOnNewRow ==
    (/\ WrappedDone
     /\ SumLens(decoration_runs) = layout.len
     /\ RunsStartAtGlyphs)
    => \A k \in 1..Len(args.boundaries) :
          LET i == FlatIx(args.boundaries[k])
          IN  (/\ i > 1
               /\ \E r \in 1..Len(decoration_runs) :
                     /\ IsSome(decoration_runs[r].underline)
                     /\ Covers(decoration_runs, r, Glyphs[i - 1].index)
                     /\ Covers(decoration_runs, r, Glyphs[i].index))
              => \E j \in 1..Len(UnderlineCalls) :
                    /\ UnderlineCalls[j].origin.y =
                           args.origin.y + k * args.line_height
                             + BaselineOffsetY(layout, args.line_height)
                             + UnderlineDrop(layout)
                    /\ UnderlineCalls[j].origin.x = args.origin.x

\* --------------------------------------------------------------------- C8
\* C8: when a call on the rendering context fails during paint or
\* paint_wrapped, the operation returns the error at once: the failed call
\* is the last one made, and the result is an error exactly when a call
\* failed.
C8_ErrorAborts ==
    /\ \A j \in 1..(Len(calls) - 1) : calls[j].ok
    /\ (result = "err") <=> (calls # <<>> /\ ~calls[Len(calls)].ok)
    /\ result = "err" => pc = "done"
    /\ pc = "done" => result \in {"ok", "err"}

\* a glyph draw failed with an underline still active and glyph runs left
C8_Witness ==
    /\ result = "err"
    /\ args.op = "paint"
    /\ calls[Len(calls)].call.op = "paint_glyph"
    /\ IsSome(current_underline)
    /\ run_ix < Len(layout.runs)

\* --------------------------------------------------------------------- C4
PositionsNonDecreasing ==
    \A i \in 1..(Len(Glyphs) - 1) : Glyphs[i].x <= Glyphs[i + 1].x

\* the font of the glyph run of each glyph, in run/glyph order
RECURSIVE FontOfGlyphs(_)
FontOfGlyphs(runs) ==
    IF runs = <<>> THEN <<>>
    ELSE [j \in 1..Len(Head(runs).glyphs) |-> Head(runs).font_id]
         \o FontOfGlyphs(Tail(runs))

\* the draw region [origin x, origin x + max glyph width] of the i-th glyph
\* meets the visible window's horizontal extent
Intersects(i) ==
    LET x == args.origin.x + Glyphs[i].x
        w == BoundingBoxWidth(FontOfGlyphs(layout.runs)[i])
    IN  /\ x <= args.visible_bounds.right
        /\ x + w >= args.visible_bounds.left

DrawsOf(i) ==
    {j \in 1..Len(calls) : IsDraw(calls[j]) /\ calls[j].call.id = Glyphs[i].id}

\* C4: in paint on a layout with non-decreasing glyph positions, a glyph
\* whose draw region meets the visible window gets exactly one draw call,
\* paint_emoji if is_emoji and paint_glyph otherwise; a glyph right of the
\* window or wholly left of it gets none; no glyph is drawn twice.
C4_VisibleGlyphsDrawnOnce ==
    (args.op = "paint" /\ PositionsNonDecreasing)
    => \A i \in 1..Len(Glyphs) :
          /\ Cardinality(DrawsOf(i)) <= 1
          /\ ~Intersects(i) => DrawsOf(i) = {}
          /\ \A j \in DrawsOf(i) :
                calls[j].call.op =
                    IF Glyphs[i].is_emoji THEN "paint_emoji" ELSE "paint_glyph"
          /\ (PaintDone /\ Intersects(i)) => Cardinality(DrawsOf(i)) = 1

\* one glyph culled at the left, an emoji drawn, one glyph culled at the right
C4_Witness ==
    /\ PaintDone /\ PositionsNonDecreasing
    /\ Len(Glyphs) = 3
    /\ ~Intersects(1) /\ Intersects(2) /\ ~Intersects(3)
    /\ Glyphs[2].is_emoji
    /\ args.origin.x + Glyphs[2].x < args.visible_bounds.left
    /\ \E j \in 1..Len(calls) : calls[j].call.op = "paint_emoji"

\* --------------------------------------------------------------------- C9
\* C9 as claimed: for any shaped layout and byte indices i <= j,
\* x_for_index(i) <= x_for_index(j).
C9_MonotoneAnyLayout ==
    answer.op = "x_for_index"
    => \A j \in answer.arg..(layout.len + 1) :
          Unwrap(answer.val) <= x_for_index(layout, j)

PositionsWithinWidth ==
    \A i \in 1..Len(Glyphs) : Glyphs[i].x <= layout.width

\* C9 (amended): for a layout whose glyph positions are non-decreasing in
\* run/glyph order and at most the layout width, and byte indices i <= j,
\* x_for_index(i) <= x_for_index(j).
C9_MonotoneOrderedLayout ==
    (PositionsNonDecreasing /\ PositionsWithinWidth) => C9_MonotoneAnyLayout

C9_Witness ==
    /\ answer.op = "x_for_index"
    /\ PositionsNonDecreasing /\ PositionsWithinWidth
    /\ Len(Glyphs) >= 2
    /\ Glyphs[1].index < answer.arg
    /\ answer.val = Some(Glyphs[2].x)
    /\ Glyphs[2].x < layout.width
    /\ x_for_index(layout, 0) < Glyphs[2].x

\* -------------------------------------------------------------------- C10
\* the glyphs whose position is at most x
AtOrBefore(x) == {i \in 1..Len(Glyphs) : Glyphs[i].x <= x}
LastOf(S) == CHOOSE i \in S : \A k \in S : k <= i

\* C10 as claimed: index_for_x(x) is none for every x >= width, byte index 0
\* for every x less than the first glyph's position, and for any other x the
\* byte index of the last glyph in run/glyph order whose position is <= x.
C10_IndexForX ==
    answer.op = "index_for_x"
    => /\ answer.arg >= layout.width => answer.val = None
       /\ (Glyphs # <<>> /\ answer.arg < Glyphs[1].x) => answer.val = Some(0)
       /\ (/\ Glyphs # <<>>
           /\ answer.arg < layout.width
           /\ answer.arg >= Glyphs[1].x)
          => answer.val = Some(Glyphs[LastOf(AtOrBefore(answer.arg))].index)

\* C10 (amended): index_for_x(x) is none for every x >= width; for x < width
\* it is the byte index of the last glyph in run/glyph order whose position
\* is <= x, and byte index 0 when no glyph has such a position, which on a
\* layout with non-decreasing positions is every x less than the first
\* glyph's position.  It answers for every input.
C10_IndexForXBelowWidth ==
    answer.op = "index_for_x"
    => /\ answer.arg >= layout.width => answer.val = None
       /\ answer.arg < layout.width
          => answer.val =
                IF AtOrBefore(answer.arg) = {} THEN Some(0)
                ELSE Some(Glyphs[LastOf(AtOrBefore(answer.arg))].index)
       /\ (/\ PositionsNonDecreasing
           /\ Glyphs # <<>>
           /\ answer.arg < Glyphs[1].x
           /\ answer.arg < layout.width)
          => answer.val = Some(0)

C10_Witness ==
    /\ answer.op = "index_for_x"
    /\ Len(Glyphs) = 3
    /\ Glyphs[1].x <= answer.arg
    /\ Glyphs[2].x <= answer.arg
    /\ Glyphs[3].x > answer.arg
    /\ answer.arg < layout.width
    /\ Glyphs[2].index > 0
    /\ answer.val = Some(Glyphs[2].index)

\* -------------------------------------------------------------------- C11
\* C11 as claimed: on any non-empty line (text byte length > 0),
\* index_for_x(0) returns byte index 0 and index_for_x(width) returns none.
C11_EdgeQueries ==
    (answer.op = "index_for_x" /\ layout.len > 0)
    => /\ answer.arg = 0 => answer.val = Some(0)
       /\ answer.arg = layout.width => answer.val = None

\* every glyph at or left of x = 0 is a glyph of byte 0
OnlyByteZeroAtLineStart ==
    \A i \in 1..Len(Glyphs) : Glyphs[i].x <= 0 => Glyphs[i].index = 0

\* C11 (amended): on a non-empty line of width > 0 on which every glyph with
\* position <= 0 has byte index 0, index_for_x(0) returns byte index 0; on
\* any line index_for_x(width) returns none.
C11_EdgeQueriesPositiveWidth ==
    answer.op = "index_for_x"
    => /\ (/\ layout.len > 0
           /\ layout.width > 0
           /\ OnlyByteZeroAtLineStart
           /\ answer.arg = 0)
          => answer.val = Some(0)
       /\ answer.arg = layout.width => answer.val = None

C11_Witness ==
    /\ answer.op = "index_for_x"
    /\ layout.len > 0 /\ layout.width > 0
    /\ OnlyByteZeroAtLineStart
    /\ Len(Glyphs) >= 2
    /\ Glyphs[1].x > 0
    /\ answer.arg = 0
    /\ answer.val = Some(0)

\* -------------------------------------------------------------------- C12
\* the glyph the loops of paint stand at
CurrentGlyph == GlyphAt(layout, run_ix, glyph_ix)

\* paint stands at a glyph whose byte index has reached run_end with no
\* decoration run left
ExhaustsHere ==
    /\ args.op = "paint" /\ pc = "paint_glyph"
    /\ CurrentGlyph.index >= run_end
    /\ style_ix = Len(decoration_runs)

\* the decoration runs were exhausted at an earlier glyph
ExhaustedBefore ==
    /\ args.op = "paint" /\ pc = "paint_glyph"
    /\ style_ix = Len(decoration_runs)
    /\ SumLens(decoration_runs) < layout.len
    /\ run_end = layout.len

NewCalls == SubSeq(calls', Len(calls) + 1, Len(calls'))

DrawnBlack ==
    \A j \in 1..Len(NewCalls) :
       NewCalls[j].call.op = "paint_glyph" => NewCalls[j].call.color = black

\* the step that exhausts the decoration runs sets run_end to the text
\* length, flushes the active underline at this glyph, starts none, and
\* draws in black; later glyphs are drawn in black with no underline
ExhaustStep ==
    /\ (ExhaustsHere /\ WholeLineVisible)
       => /\ run_end' = layout.len
          /\ current_underline' = None
          /\ IsSome(current_underline)
             => /\ NewCalls # <<>>
                /\ NewCalls[1].call =
                      UnderlineCall(Unwrap(current_underline).origin,
                          args.origin.x + CurrentGlyph.x
                              - Unwrap(current_underline).origin.x,
                          Unwrap(current_underline).style)
          /\ DrawnBlack
    /\ (ExhaustedBefore /\ WholeLineVisible)
       => /\ run_end' = layout.len
          /\ current_underline = None /\ current_underline' = None
          /\ DrawnBlack

\* C12: in paint with the whole line visible, when a glyph's byte index
\* reaches run_end and the decoration runs are exhausted, run_end becomes the
\* text length, any active underline is flushed at that glyph and none is
\* started, and this and the remaining glyphs are drawn in black.
C12_ExhaustedRunsDefaultStyling == [][ExhaustStep]_vars

\* -------------------------------------------------------------------- C13
\* paint stands at a glyph whose draw origin lies right of the window
MeetsRightOfWindow ==
    /\ args.op = "paint" /\ pc = "paint_glyph"
    /\ RightOfWindow(args.origin.x + CurrentGlyph.x, args.visible_bounds)

\* from such a glyph paint goes straight to the trailing flush: no call is
\* made and the decoration cursor stays
StopsForTheLine ==
    MeetsRightOfWindow
    => /\ pc' = "paint_flush"
       /\ UNCHANGED <<style_locals, calls>>

\* C13: in paint, once a glyph is met whose draw origin x exceeds the visible
\* window's right edge, processing stops for the whole line: no later glyph
\* of this or a later glyph run is drawn or advances the decoration cursor,
\* no further renderer query is made, and only the trailing underline flush
\* follows.
C13_RightCullStopsLine == [][StopsForTheLine]_vars

\* -------------------------------------------------------------------- C14
\* the next pending boundary names the glyph paint_wrapped stands at
MatchesPending ==
    /\ boundary_ix < Len(args.boundaries)
    /\ args.boundaries[boundary_ix + 1] =
          [run_ix |-> run_ix, glyph_ix |-> glyph_ix]

\* the y of an underline of the row the draw origin is on
RowUnderlineY(origin) ==
    origin.y + BaselineOffsetY(layout, args.line_height) + UnderlineDrop(layout)

NewUnderlines ==
    {j \in 1..Len(NewCalls) : NewCalls[j].call.op = "paint_underline"}

BoundaryStep ==
    (args.op = "paint_wrapped" /\ pc = "wrapped_glyph")
    => LET glyph == CurrentGlyph
           old_x == glyph_origin.x + (glyph.x - prev_position)
       IN  /\ \A j \in NewUnderlines :
                 NewCalls[j].call.origin.y = RowUnderlineY(glyph_origin)
           /\ IF MatchesPending
              THEN /\ boundary_ix' = boundary_ix + 1
                   /\ IsSome(current_underline)
                      => /\ NewUnderlines = {1}
                         /\ NewCalls[1].call =
                               UnderlineCall(Unwrap(current_underline).origin,
                                   old_x - Unwrap(current_underline).origin.x,
                                   Unwrap(current_underline).style)
                   /\ ~IsSome(current_underline) => NewUnderlines = {}
                   /\ glyph_origin' =
                         [x |-> args.origin.x,
                          y |-> glyph_origin.y + args.line_height]
                   /\ IsSome(current_underline')
                      => Unwrap(current_underline').origin =
                            [x |-> args.origin.x,
                             y |-> RowUnderlineY(glyph_origin')]
              ELSE /\ boundary_ix' = boundary_ix
                   /\ glyph_origin' = [x |-> old_x, y |-> glyph_origin.y]

FinalFlushOnRow ==
    (args.op = "paint_wrapped" /\ pc = "wrapped_flush")
    => /\ boundary_ix' = boundary_ix
       /\ \A j \in NewUnderlines :
             NewCalls[j].call.origin.y = RowUnderlineY(glyph_origin)

\* an active underline lies on the row the draw origin is on
ActiveUnderlineOnRow ==
    (args.op = "paint_wrapped" /\ IsSome(current_underline))
    => Unwrap(current_underline).origin.y = RowUnderlineY(glyph_origin)

\* C14: in paint_wrapped, when the glyph being processed matches the next
\* pending boundary, an active underline is flushed with one paint_underline
\* call on the old row and cleared before the draw origin is reset to the
\* left edge and advanced by one line_height, and the boundary cursor
\* advances by exactly one; it advances at no other glyph.  Every
\* paint_underline call lies on the row its span was started on.
C14_BoundaryFlushAndReset ==
    /\ [][BoundaryStep /\ FinalFlushOnRow]_vars
    /\ []ActiveUnderlineOnRow

C14_Witness ==
    /\ WrappedDone
    /\ Len(args.boundaries) = 2
    /\ boundary_ix = 2
    /\ Len(UnderlineCalls) = 3
    /\ UnderlineCalls[1].origin.y = UnderlineY
    /\ UnderlineCalls[2].origin.y = UnderlineY + args.line_height
    /\ UnderlineCalls[3].origin.y = UnderlineY + 2 * args.line_height

\* -------------------------------------------------------------------- C15
\* the draw x of the last glyph paint_wrapped placed
LastDrawX == glyph_bounds[Len(glyph_bounds)].origin.x

WrappedFinalFlushStep ==
    (args.op = "paint_wrapped" /\ pc = "wrapped_flush")
    => /\ current_underline' = None
       /\ IF IsSome(current_underline)
          THEN LET underline == Unwrap(current_underline)
               IN  /\ Len(NewCalls) = 1
                   /\ NewCalls[1].call.op = "paint_underline"
                   /\ NewCalls[1].call.origin = underline.origin
                   /\ NewCalls[1].call.style = underline.style
                   /\ underline.origin.x + NewCalls[1].call.width =
                         LastDrawX + (layout.width - Glyphs[Len(Glyphs)].x)
          ELSE NewCalls = <<>>

\* C15: at the end of paint_wrapped a still-active underline is flushed with
\* exactly one paint_underline call, which ends at (draw x of the last glyph)
\* + (layout width - layout position of the last glyph); with no active
\* underline no call is made.
C15_WrappedFinalFlush == [][WrappedFinalFlushStep]_vars

\* the final flush of a wrapped line whose last row begins at its last glyph
C15_Witness ==
    /\ WrappedDone
    /\ Len(args.boundaries) >= 1
    /\ glyph_bounds # <<>>
    /\ LastDrawX = args.origin.x
    /\ Glyphs[Len(Glyphs)].x > 0
    /\ calls[Len(calls)].call.op = "paint_underline"
    /\ calls[Len(calls)].call.origin.x + calls[Len(calls)].call.width
          = args.origin.x + layout.width - Glyphs[Len(Glyphs)].x

\* -------------------------------------------------------------------- C16
\* the style the claim gives the underline of a decoration run
ClaimedStyle(style_run) ==
    LET underline == Unwrap(style_run.underline)
    IN  [color |-> IF underline.color # None THEN underline.color
                   ELSE Some(style_run.color),
         thickness |-> underline.thickness,
         wavy |-> underline.wavy]

\* a span is started by the decoration run just pulled and carries that
\* run's style; a call carries the style of the span it flushes
UnderlineStyleStep ==
    /\ (IsSome(current_underline') /\ current_underline' # current_underline)
       => /\ style_ix' = style_ix + 1
          /\ IsSome(decoration_runs[style_ix'].underline)
          /\ Unwrap(current_underline').style =
                ClaimedStyle(decoration_runs[style_ix'])
    /\ \A j \in NewUnderlines :
          /\ IsSome(current_underline)
          /\ NewCalls[j].call.style = Unwrap(current_underline).style

UnderlineColorsSet ==
    \A j \in 1..Len(UnderlineCalls) :
       /\ UnderlineCalls[j].style.color # None
       /\ \E k \in 1..Len(decoration_runs) :
             /\ IsSome(decoration_runs[k].underline)
             /\ UnderlineCalls[j].style = ClaimedStyle(decoration_runs[k])

\* C16: every paint_underline call of paint or paint_wrapped carries a style
\* whose color is set: the explicit underline color of the decoration run
\* that started the span when it gave one, otherwise that run's fill color;
\* thickness and wavy are those of that run's underline.
C16_UnderlineStyleResolved ==
    /\ [][UnderlineStyleStep]_vars
    /\ []UnderlineColorsSet

\* an explicit underline color on one run, the fill color on the next
C16_Witness ==
    /\ pc = "done" /\ result = "ok"
    /\ Len(decoration_runs) = 2
    /\ IsSome(decoration_runs[1].underline)
    /\ Unwrap(decoration_runs[1].underline).color
          \notin {None, Some(decoration_runs[1].color)}
    /\ IsSome(decoration_runs[2].underline)
    /\ Unwrap(decoration_runs[2].underline).color = None
    /\ Len(UnderlineCalls) = 2
    /\ UnderlineCalls[1].style.color = Unwrap(decoration_runs[1].underline).color
    /\ UnderlineCalls[2].style =
          [color |-> Some(decoration_runs[2].color), thickness |-> 2,
           wavy |-> TRUE]

\* -------------------------------------------------------------------- C17
\* In a log of paint followed by paint_wrapped, paint's calls end with its
\* last glyph draw and the trailing underline flush, if any: paint_wrapped
\* draws no glyph and begins with a bounding_box query.
LastDraw ==
    LET draws == {j \in 1..Len(calls) : IsDraw(calls[j])}
    IN  IF draws = {} THEN 0 ELSE CHOOSE j \in draws : \A k \in draws : k <= j

PaintPart ==
    IF LastDraw < Len(calls) /\ IsUnderline(calls[LastDraw + 1])
    THEN LastDraw + 1 ELSE LastDraw

UnderlinesOf(cs) ==
    LET us == SelectSeq(cs, IsUnderline)
    IN  [j \in 1..Len(us) |-> us[j].call]

\* C17: paint_wrapped called with no boundary issues the same sequence of
\* paint_underline calls (origin, length and style, in order) as paint
\* called with the same origin and the whole line visible, both returning Ok.
C17_UnwrappedUnderlinesAgree ==
    WrappedDone
    => UnderlinesOf(SubSeq(calls, 1, PaintPart))
          = UnderlinesOf(SubSeq(calls, PaintPart + 1, Len(calls)))

\* two spans, one flushed at a glyph and one at the line end, by each
C17_Witness ==
    /\ WrappedDone
    /\ LastDraw > 0
    /\ Len(UnderlinesOf(SubSeq(calls, 1, PaintPart))) = 2
    /\ Len(UnderlinesOf(SubSeq(calls, PaintPart + 1, Len(calls)))) = 2
    /\ IsUnderline(calls[PaintPart])
    /\ IsUnderline(calls[Len(calls)])

\* -------------------------------------------------------------------- C18
GlyphDraws == {j \in 1..Len(calls) : calls[j].call.op = "paint_glyph"}

\* C18: in paint on a layout with non-decreasing glyph positions, a glyph is
\* drawn with the same color under any two visible windows under which it
\* is drawn.
C18_ColorIndependentOfWindow ==
    PositionsNonDecreasing
    => \A j, k \in GlyphDraws :
          calls[j].call.id = calls[k].call.id
          => calls[j].call.color = calls[k].call.color

\* the second glyph drawn twice in the second decoration run's color, the
\* second time with the first glyph culled at the left edge
C18_Witness ==
    /\ PaintDone /\ PositionsNonDecreasing
    /\ Len(Glyphs) >= 2 /\ Len(decoration_runs) >= 2
    /\ decoration_runs[1].color # decoration_runs[2].color
    /\ args.origin.x + Glyphs[1].x + max_glyph_width < args.visible_bounds.left
    /\ Cardinality({j \in GlyphDraws : calls[j].call.id = Glyphs[1].id}) = 1
    /\ \E j, k \in GlyphDraws :
          /\ j < k
          /\ calls[j].call.id = Glyphs[2].id
          /\ calls[k].call.id = Glyphs[2].id
          /\ calls[k].call.color = decoration_runs[2].color

\* -------------------------------------------------------------------- C19
\* byte indices and positions strictly increasing, positions below the width
StrictlyIncreasing ==
    /\ \A i \in 1..(Len(Glyphs) - 1) :
          /\ Glyphs[i].index < Glyphs[i + 1].index
          /\ Glyphs[i].x < Glyphs[i + 1].x
    /\ \A i \in 1..Len(Glyphs) : Glyphs[i].x < layout.width

\* C19: on a layout whose glyph byte indices and positions are strictly
\* increasing and whose positions are below the width,
\* index_for_x(x_for_index(i)) = i for every i that is the byte index of a
\* glyph, and x_for_index(index_for_x(x)) <= x for every x with first glyph
\* position <= x < width.
C19_QueriesRoundTrip ==
    StrictlyIncreasing
    => /\ (/\ answer.op = "x_for_index"
           /\ \E i \in 1..Len(Glyphs) : Glyphs[i].index = answer.arg)
          => index_for_x(layout, Unwrap(answer.val)) = Some(answer.arg)
       /\ (/\ answer.op = "index_for_x"
           /\ Glyphs # <<>>
           /\ Glyphs[1].x <= answer.arg
           /\ answer.arg < layout.width)
          => /\ answer.val # None
             /\ x_for_index(layout, Unwrap(answer.val)) <= answer.arg

C19_Witness ==
    /\ StrictlyIncreasing
    /\ Len(Glyphs) = 2
    /\ answer.op = "x_for_index"
    /\ answer.arg = Glyphs[2].index
    /\ answer.val = Some(Glyphs[2].x)
    /\ Glyphs[1].x + 1 < Glyphs[2].x
    /\ index_for_x(layout, Glyphs[2].x) = Some(answer.arg)
    /\ index_for_x(layout, Glyphs[2].x - 1) = Some(Glyphs[1].index)

\* -------------------------------------------------------------------- C20
\* C20: on a layout whose glyph positions are non-decreasing and at most the
\* layout width, every paint_underline call of paint and paint_wrapped has a
\* length >= 0, whatever the decoration runs, the visible window and the
\* boundaries.
C20_UnderlineLengthsNonNegative ==
    (PositionsNonDecreasing /\ PositionsWithinWidth)
    => \A j \in 1..Len(UnderlineCalls) : UnderlineCalls[j].width >= 0

\* a span flushed at a wrap boundary and a span started on the next row
C20_Witness ==
    /\ WrappedDone
    /\ PositionsNonDecreasing /\ PositionsWithinWidth
    /\ boundary_ix >= 1
    /\ Len(UnderlineCalls) >= 2
    /\ UnderlineCalls[1].origin.y = UnderlineY
    /\ UnderlineCalls[2].origin.y = UnderlineY + args.line_height
    /\ UnderlineCalls[2].origin.x = args.origin.x
    /\ \E j \in 1..Len(UnderlineCalls) : UnderlineCalls[j].width = 0

====
